---- MODULE Spec2Model ----
(***************************************************************************)
(* Model of the BlissfulBrides scraper (src/src/bb/main.py): the sitemap   *)
(* URL source, the venue detail fetcher with its PDF downloads, the        *)
(* semaphore-bounded asyncio scheduler, the banquet price table, the       *)
(* JSON/CSV sink and main(); and of the paging loop of scrape_venues in    *)
(* src/src/twn/main.py.                                                    *)
(*                                                                         *)
(* Text is modelled as a sequence of tokens: "/" is a token of its own,    *)
(* BASE_URL is one token, and every other token stands for a run of        *)
(* characters holding no "/".                                              *)
(* Python values are tagged records, so that isinstance and truthiness are *)
(* computed and not assumed.  One action is one run of the event loop from *)
(* one await to the next: asyncio runs a coroutine without interruption    *)
(* between two awaits.                                                     *)
(***************************************************************************)
EXTENDS Integers, Sequences, FiniteSets, TLC

VARIABLES
    phase,      \* position of main(): "start", "gather", "returned", "prices", "exit"
    entry,      \* the scrape_items call in progress: "venues", "marketplace", or "direct"
    delay,      \* --delay as a fraction [num, den]
    limit,      \* --limit: None or an int
    sitemap,    \* the sitemap response: [status, locs]
    prior,      \* the records of the output file a previous run left, or <<>>
    workers,    \* the semaphore's initial value
    urls,       \* scrape_items_parallel's urls after the limit
    sem,        \* the semaphore's counter
    clientOpen, \* the shared httpx.AsyncClient is open
    pc,         \* per task: "queued", "page", "listing", "pdf", "run", "done"
    cur,        \* per task: the locals of scrape_venue_detail across its awaits
    result,     \* per task: what gather records for it
    calls,      \* per task: how many times scraper_func was invoked for it
    dl,         \* per task: the download_pdf calls it made, in order
    fs,         \* the files under data/bb/price-lists: path -> content
    gets,       \* network requests issued by download_pdf, per destination path
    items,      \* the list scrape_items_parallel returns
    saved,      \* what save_to_files wrote: [json, csv] or NoFiles
    exitStatus, \* the process exit status, -1 while running
    type,       \* args.type of main, "direct" when there is no main
    marketSaved,\* the marketplace output files
    pricePage,  \* the answer scrape_banquet_prices got for the price-list page
    vendors,    \* the list scrape_banquet_prices returned
    pricesSaved,\* the banquet_prices output files
    twn         \* src/twn/main.py scrape_venues: its arguments, server and locals

vars == <<phase, entry, delay, limit, sitemap, prior, workers, urls, sem,
          clientOpen, pc, cur, result, calls, dl, fs, gets, items, saved,
          exitStatus,
          type, marketSaved, pricePage, vendors, pricesSaved, twn>>

\* what the scheduler and the fetchers leave alone
others == <<type, marketSaved, pricePage, vendors, pricesSaved, twn>>

(***************************************************************************)
(* Bounds of the model.                                                    *)
(***************************************************************************)
\* longest sitemap (number of <loc> entries) the pipeline is run on
MaxLocs == 2
\* most .pdf links on one price-list page
MaxLinks == 2
\* longest sitemap get_urls_from_sitemap is applied to on its own
MaxSitemapLen == 3
\* most records handed to save_to_files on its own
MaxRecords == 2
\* most rows in the table of the banquet price-list page
MaxRows == 3
\* most pages the listings server holds
MaxPages == 2

(***************************************************************************)
(* Text as token sequences.                                                *)
(***************************************************************************)
\* s[a..b] as a sequence, empty when a > b
Slice(s, a, b) == [j \in 1..(b - a + 1) |-> s[a + j - 1]]

\* sep occurs in s at position p
OccursAt(sep, s, p) ==
    /\ p >= 1
    /\ p + Len(sep) - 1 <= Len(s)
    /\ \A j \in 1..Len(sep) : s[p + j - 1] = sep[j]

\* Python's   sub in s
Contains(s, sub) == \E p \in 1..(Len(s) + 1) : OccursAt(sub, s, p)

\* Python's   s.split(sep)   for a non-empty sep: the pieces between the
\* non-overlapping occurrences of sep, scanned from the left
RECURSIVE SplitFrom(_, _, _, _)
SplitFrom(s, sep, start, p) ==
    IF p + Len(sep) - 1 > Len(s)
    THEN <<Slice(s, start, Len(s))>>
    ELSE IF OccursAt(sep, s, p)
         THEN <<Slice(s, start, p - 1)>> \o SplitFrom(s, sep, p + Len(sep), p + Len(sep))
         ELSE SplitFrom(s, sep, start, p + 1)

Split(s, sep) == SplitFrom(s, sep, 1, 1)

\* Python's   s.endswith(suffix)   for a one-token suffix
EndsWith(s, tok) == Len(s) >= 1 /\ s[Len(s)] = tok

(***************************************************************************)
(* Python values, tagged with their type.  A call yields a value or an     *)
(* exception; gather(return_exceptions=True) stores either in its results. *)
(***************************************************************************)
NoneValue == [kind |-> "none"]
IntValue(n) == [kind |-> "int", val |-> n]
BoolValue(b) == [kind |-> "bool", val |-> b]
StrValue(s) == [kind |-> "str", val |-> s]
ListValue(l) == [kind |-> "list", val |-> l]
DictValue(d) == [kind |-> "dict", val |-> d]
Raised(e) == [kind |-> "exc", exc |-> e]

\* Python's truth value of an object
Truthy(v) ==
    CASE v.kind = "none" -> FALSE
      [] v.kind = "int" -> v.val # 0
      [] v.kind = "bool" -> v.val
      [] v.kind = "str" -> v.val # <<>>
      [] v.kind = "list" -> v.val # <<>>
      [] v.kind = "dict" -> DOMAIN v.val # {}
      [] OTHER -> TRUE

\* str(v) inside an f-string
Format(v) ==
    CASE v.kind = "none" -> <<"None">>
      [] v.kind = "str" -> v.val
      [] v.kind = "int" -> <<ToString(v.val)>>
      [] v.kind = "bool" -> IF v.val THEN <<"True">> ELSE <<"False">>
      [] OTHER -> <<"object">>

(***************************************************************************)
(* URLs of the model.                                                      *)
(***************************************************************************)
BASE_URL == "https://www.blissfulbrides.sg"

VenuePattern == <<"/", "detail", "/">>
MarketPattern == <<"/", "wedding-market-place", "/">>

\* BASE_URL/detail/<id>/<slug>/
VenueUrl(id, slug) == <<BASE_URL, "/", "detail", "/", id, "/", slug, "/">>
\* the same page without the trailing slash: another URL, same id and slug
VenueUrlBare(id, slug) == <<BASE_URL, "/", "detail", "/", id, "/", slug>>
\* BASE_URL/detail/<id>: a detail URL with no slug segment
VenueUrlNoSlug(id) == <<BASE_URL, "/", "detail", "/", id>>
MarketUrl(id, slug) == <<BASE_URL, "/", "wedding-market-place", "/", id, "/", slug, "/">>
OtherUrl == <<BASE_URL, "/", "about", "/">>

\* the <loc> entries a sitemap of the model may hold
Locs ==
    { VenueUrl("1", "hall"), VenueUrlBare("1", "hall"), VenueUrl("2", "inn"),
      VenueUrlNoSlug("3"), MarketUrl("7", "gown"), OtherUrl }

\* the sequences over S of length at most n
SeqsUpTo(S, n) == UNION { [1..m -> S] : m \in 0..n }

(***************************************************************************)
(* get_urls_from_sitemap                                                   *)
(***************************************************************************)
\* urls = [loc.text for loc in locs if url_pattern in loc.text]
MatchingLocs(locs, pattern) == SelectSeq(locs, LAMBDA u : Contains(u, pattern))

\* (mutant) no deduplication: unique_urls = urls
KeepDuplicates(s) == s

\* list(dict.fromkeys(urls)): each key once, at the place of its first occurrence
RECURSIVE DictFromKeys(_)
DictFromKeys(s) ==
    IF s = <<>> THEN <<>>
    ELSE LET init == DictFromKeys(SubSeq(s, 1, Len(s) - 1))
             last == s[Len(s)]
         IN IF \E j \in 1..Len(init) : init[j] = last THEN init ELSE Append(init, last)

\* (mutant) no except clause: the exception leaves get_urls_from_sitemap
SitemapExceptPropagates(outcome) == outcome

\* the except clause of get_urls_from_sitemap: any exception becomes []
SitemapExcept(outcome) ==
    IF outcome.kind = "exc" THEN ListValue(<<>>) ELSE outcome

\* the sitemap request: httpx.get raises on a transport error and
\* raise_for_status on a non-success status
GetUrlsFromSitemap(resp, pattern) ==
    SitemapExcept(
        IF resp.status # "ok"
        THEN Raised(resp.status)
        ELSE ListValue(DictFromKeys(MatchingLocs(resp.locs, pattern))))

SitemapStatuses == {"ok", "http_error", "transport_error"}

(***************************************************************************)
(* download_pdf                                                            *)
(***************************************************************************)
\* (mutant) no existence check: every call requests the file
DownloadAlwaysRequests(files, path) == TRUE

\* if save_path.exists(): return True     -- no request is made
DownloadNeedsRequest(files, path) == path \notin DOMAIN files

\* client.get(...) raises on a transport error, raise_for_status on a
\* non-success status; otherwise the file is written and True returned
DownloadBody(resp) == IF resp = "ok" THEN BoolValue(TRUE) ELSE Raised(resp)

\* (mutant) no except in download_pdf: the exception leaves it
DownloadExceptPropagates(outcome) == outcome

\* except Exception: return False
DownloadExcept(outcome) ==
    IF outcome.kind = "exc" THEN BoolValue(FALSE) ELSE outcome

\* open(save_path, "wb").write(response.content)
WriteFile(files, path, content) ==
    [p \in DOMAIN files \cup {path} |-> IF p = path THEN content ELSE files[p]]

\* one more request counted for a destination
CountUp(f, x) ==
    [y \in DOMAIN f \cup {x} |->
        IF y = x THEN (IF x \in DOMAIN f THEN f[x] + 1 ELSE 1) ELSE f[y]]

(***************************************************************************)
(* scrape_venue_detail                                                     *)
(***************************************************************************)
\* venue_id = url.split("/detail/")[1].split("/")[0] if "/detail/" in url else None
\* slug     = url.split("/detail/")[1].split("/")[1] if "/detail/" in url else None
\* the second index raises IndexError when nothing follows the id
ExtractIdSlug(url) ==
    IF ~Contains(url, VenuePattern)
    THEN [kind |-> "ids", id |-> NoneValue, slug |-> NoneValue]
    ELSE LET segs == Split(Split(url, VenuePattern)[2], <<"/">>)
         IN IF Len(segs) < 2
            THEN Raised("IndexError")
            ELSE [kind |-> "ids", id |-> StrValue(segs[1]), slug |-> StrValue(segs[2])]

\* f"{BASE_URL}/public/banquet/{slug}/wedding-banquet-price-list/"
PublicBanquetUrl(slug) ==
    <<BASE_URL, "/", "public", "/", "banquet", "/">> \o Format(slug)
        \o <<"/", "wedding-banquet-price-list", "/">>

\* pdf_url = f"{public_banquet_url}{pdf_filename}"
PdfUrl(slug, href) == PublicBanquetUrl(slug) \o href

\* Path(f"data/bb/price-lists/{venue_id}-{slug}") / pdf_filename
PdfSavePath(id, slug, href) ==
    <<"data", "/", "bb", "/", "price-lists", "/">> \o Format(id) \o <<"-">>
        \o Format(slug) \o <<"/">> \o href

\* listing_soup.find_all("a", href=lambda x: x and x.endswith(".pdf"))
PdfLinks(anchors) == SelectSeq(anchors, LAMBDA h : h # <<>> /\ EndsWith(h, ".pdf"))

\* if not pdf_filename or pdf_filename == "#": continue
SkipLink(href) == href = <<>> \/ href = <<"#">>

\* the for loop over pdf_links from link k on, run until download_pdf has to
\* await its request (waiting) or the links are used up.  log gets one entry
\* per download_pdf call: whether the destination existed when it was called,
\* whether a request was made, whether the file was written, what it returned.
RECURSIVE PdfLoop(_, _, _, _, _)
PdfLoop(c, k, pdfs, log, files) ==
    IF k > Len(c.links)
    THEN [k |-> k, pdfs |-> pdfs, log |-> log, waiting |-> FALSE]
    ELSE IF SkipLink(c.links[k])
    THEN PdfLoop(c, k + 1, pdfs, log, files)
    ELSE LET path == PdfSavePath(c.id, c.slug, c.links[k])
             existed == path \in DOMAIN files
         IN IF DownloadNeedsRequest(files, path)
            THEN [k |-> k, pdfs |-> pdfs, waiting |-> TRUE,
                  log |-> Append(log, [link |-> k, existed |-> existed,
                                       request |-> TRUE, wrote |-> FALSE,
                                       ok |-> FALSE, open |-> TRUE])]
            ELSE PdfLoop(c, k + 1, Append(pdfs, PdfUrl(c.slug, c.links[k])),
                         Append(log, [link |-> k, existed |-> existed,
                                      request |-> FALSE, wrote |-> FALSE,
                                      ok |-> TRUE, open |-> FALSE]),
                         files)

\* data = {"id": venue_id, "slug": slug, "url": url}
BaseData(c, url) == [id |-> c.id, slug |-> c.slug, url |-> StrValue(url)]

\* (mutant) a record that is given the rating of the pricing list
DataWithPdfsAndRating(c, url, pdfs) ==
    DictValue([id |-> c.id, slug |-> c.slug, url |-> StrValue(url),
               rating |-> StrValue(<<"4.5">>),
               price_list_pdfs |-> ListValue([j \in 1..Len(pdfs) |-> StrValue(pdfs[j])]),
               has_price_list |-> BoolValue(Len(pdfs) > 0),
               price_list_count |-> IntValue(Len(pdfs))])

\* data["price_list_pdfs"] = pdf_list; has_price_list = len > 0; count = len
DataWithPdfs(c, url, pdfs) ==
    DictValue([id |-> c.id, slug |-> c.slug, url |-> StrValue(url),
               price_list_pdfs |-> ListValue([j \in 1..Len(pdfs) |-> StrValue(pdfs[j])]),
               has_price_list |-> BoolValue(Len(pdfs) > 0),
               price_list_count |-> IntValue(Len(pdfs))])

\* the else branch (no .pdf link) and the inner except (the price-list page
\* could not be fetched): has_price_list = False, price_list_count = 0
DataNoPdfs(c, url) ==
    DictValue([id |-> c.id, slug |-> c.slug, url |-> StrValue(url),
               has_price_list |-> BoolValue(FALSE),
               price_list_count |-> IntValue(0)])

\* the inner   except Exception:   around the price-list page and its loop
ListingExcept(outcome, c, url) ==
    IF outcome.kind = "exc" THEN DataNoPdfs(c, url) ELSE outcome

\* (mutant) no outer except: the exception leaves scrape_venue_detail
OuterExceptPropagates(outcome) == outcome

\* the outer   except Exception as e: ... return None
OuterExcept(outcome) ==
    IF outcome.kind = "exc" THEN NoneValue ELSE outcome

\* the locals of a scrape_venue_detail that has not started
\* (loaded: the page request was answered with success)
NoLocals ==
    [loaded |-> FALSE, id |-> NoneValue, slug |-> NoneValue, links |-> <<>>,
     k |-> 0, pdfs |-> <<>>]

\* the answers a request can get
Responses == {"ok", "http_error", "transport_error"}

\* the href values of the anchors a price-list page of the model may hold
Hrefs == { <<"menu", ".pdf">>, <<"contact">> }

(***************************************************************************)
(* save_to_files                                                           *)
(***************************************************************************)
\* the keys the records of the model use, in the order sorted() gives them
KeyOrder ==
    <<"address", "dinner_price", "has_price_list", "id", "lunch_price", "name",
      "price_list_count", "price_list_pdfs", "price_lists", "profile_url",
      "rating", "slug", "tables_max", "tables_min", "tables_range", "url">>

KeyRank(key) == CHOOSE j \in 1..Len(KeyOrder) : KeyOrder[j] = key

\* sorted(all_keys): the keys of S, in the order KeyOrder lists them
SortedKeys(S) == SelectSeq(KeyOrder, LAMBDA k : k \in S)

\* (mutant) the columns are taken from the first record only
KeysOfFirst(data) == DOMAIN data[1].val

\* all_keys = set(); for item in data: all_keys.update(item.keys())
AllKeys(data) == UNION { DOMAIN data[j].val : j \in 1..Len(data) }

\* the fieldnames of the DictWriter
CsvFieldnames(data) == SortedKeys(AllKeys(data))

\* json.dumps of a list of strings: ["x", "y"]
RECURSIVE JsonElements(_)
JsonElements(l) ==
    IF l = <<>> THEN <<>>
    ELSE (IF Len(l) > 1 THEN JsonElements(SubSeq(l, 1, Len(l) - 1)) \o <<", ">> ELSE <<>>)
         \o <<"\"">> \o Format(l[Len(l)]) \o <<"\"">>

JsonDumps(l) == <<"[">> \o JsonElements(l) \o <<"]">>

\* if isinstance(value, list): row[key] = json.dumps(value)
EncodeLists(value) ==
    IF value.kind = "list" THEN StrValue(JsonDumps(value.val)) ELSE value

\* the text csv writes for a value: None is written as the empty string
CsvText(value) == IF value.kind = "none" THEN <<>> ELSE Format(value)

\* DictWriter.writerow: one cell per fieldname, restval "" for a missing key
CsvRow(item, fieldnames) ==
    [j \in 1..Len(fieldnames) |->
        IF fieldnames[j] \in DOMAIN item.val
        THEN CsvText(EncodeLists(item.val[fieldnames[j]]))
        ELSE <<>>]

\* writer.writeheader(); for item in data: writer.writerow(row)
CsvOf(data) ==
    [header |-> CsvFieldnames(data),
     rows |-> [j \in 1..Len(data) |-> CsvRow(data[j], CsvFieldnames(data))]]

\* no output file at output_path
NoFiles == [exists |-> FALSE, json |-> <<>>, csv |-> [header |-> <<>>, rows |-> <<>>]]

\* (mutant) save_to_files without its early return
SaveAlways(data) == FALSE

\* if not data: print("No data to save"); return
SaveIsNoOp(data) == data = <<>>

\* save_to_files(data, output_path), from the files there before
SaveToFiles(data, before) ==
    IF SaveIsNoOp(data) THEN before
    ELSE [exists |-> TRUE, json |-> data, csv |-> CsvOf(data)]

(***************************************************************************)
(* scrape_items and scrape_items_parallel                                  *)
(***************************************************************************)
\* workers = max(1, int(1.0 / delay)) if delay > 0 else 10
DefaultWorkers == 10

WorkersFromDelay(d) ==
    IF d.num > 0
    THEN (IF d.den \div d.num >= 1 THEN d.den \div d.num ELSE 1)
    ELSE DefaultWorkers

\* Python's urls[:n]
SliceTo(s, n) ==
    IF n >= 0
    THEN SubSeq(s, 1, IF n < Len(s) THEN n ELSE Len(s))
    ELSE SubSeq(s, 1, IF Len(s) + n > 0 THEN Len(s) + n ELSE 0)

\* if limit: urls = urls[:limit]
ApplyLimit(list, lim) == IF Truthy(lim) THEN SliceTo(list, lim.val) ELSE list

\* the pattern main passes for each entity type
PatternOf(e) == IF e = "marketplace" THEN MarketPattern ELSE VenuePattern

\* (mutant) a semaphore that never makes a coroutine wait
CanAcquireAlways(s) == TRUE

\* (mutant) an async with block that keeps its permit when it is left
ReleaseKeepsPermit(s) == s

\* async with semaphore: entered only while the counter is positive
CanAcquire(s) == s > 0
Acquire(s) == s - 1
\* leaving the async with block, by return or by exception
Release(s) == s + 1

\* scrape_marketplace_package(url) takes one parameter and is no coroutine
\* function: scraper_func(client, url) raises TypeError before any request
MarketplaceParams == 1
ScraperCallArgs == 2

MarketplaceCall ==
    IF ScraperCallArgs # MarketplaceParams
    THEN Raised("TypeError")
    ELSE Raised("TypeError: object is not awaitable")

\* (mutant) the gather resumes as soon as one task has finished
GatherReadyFirst(pcs) == \E i \in DOMAIN pcs : pcs[i] = "done"

\* await asyncio.gather(*tasks, return_exceptions=True) resumes when every
\* task has finished
GatherReady(pcs) == \A i \in DOMAIN pcs : pcs[i] = "done"

\* (mutant) the loop over the results stops at the first exception
CollectItemsUntilError(results) ==
    LET stop == IF \E j \in 1..Len(results) : results[j].kind = "exc"
                THEN CHOOSE j \in 1..Len(results) :
                        /\ results[j].kind = "exc"
                        /\ \A m \in 1..(j - 1) : results[m].kind # "exc"
                ELSE Len(results) + 1
    IN SelectSeq(SubSeq(results, 1, stop - 1), LAMBDA r : Truthy(r))

\* (mutant) the loop over the results runs from the last task to the first
CollectItemsLastFirst(results) ==
    LET kept == SelectSeq(results, LAMBDA r : r.kind # "exc" /\ Truthy(r))
    IN [j \in 1..Len(kept) |-> kept[Len(kept) + 1 - j]]

\* for result in results: an exception is printed, a truthy result appended
RECURSIVE CollectItems(_)
CollectItems(results) ==
    IF results = <<>> THEN <<>>
    ELSE LET init == CollectItems(SubSeq(results, 1, Len(results) - 1))
             last == results[Len(results)]
         IN IF last.kind = "exc" THEN init
            ELSE IF Truthy(last) THEN Append(init, last)
            ELSE init

\* an uncaught exception ends the interpreter with status 1
ExitStatusOf(outcome) == IF outcome.kind = "exc" THEN 1 ELSE 0

(***************************************************************************)
(* src/twn/main.py, scrape_venues: the paging loop over the GraphQL         *)
(* listings.  A listing is the pair <<page, position>> the server gave it   *)
(* on; the server is the sequence of its pages, and every page after the   *)
(* last one is empty.                                                      *)
(***************************************************************************)
\* variables = {"record": {..., "limit": 50}} and   if len(listings) < 50
PageSize == 50

\* the listings of page p of a server
ListingsOf(server, p) ==
    IF p > Len(server) THEN <<>>
    ELSE [j \in 1..server[p].n |-> <<p, j>>]

\* result = client.execute(...): the answer, or the exception it raises
Execute(server, p) ==
    IF p <= Len(server) /\ server[p].status # "ok"
    THEN Raised(server[p].status)
    ELSE ListValue(ListingsOf(server, p))

\* if limit and len(all_listings) >= limit
LimitReached(lim, all, listings) == Truthy(lim) /\ Len(all) >= lim.val

\* if len(listings) < 50:  # Last page
LastPage(listings) == Len(listings) < PageSize

\* scrape_venues is not running
TwnIdle == [pc |-> "idle", limit |-> NoneValue, server |-> <<>>, page |-> 0, all |-> <<>>]

(***************************************************************************)
(* scrape_banquet_prices: the table of the price-list page.  A row is what *)
(* the lookups in its cells find: the number of td cells, the text of the  *)
(* strong tag and of the styled p tag of the first cell (None when there   *)
(* is no such tag), the hrefs of the anchors of the first cell, the value  *)
(* of the merchant_score input, the texts of the next three cells and the  *)
(* hrefs of the anchors of the fifth.                                      *)
(***************************************************************************)
\* if len(tds) >= 4
MinCells == 4

\* strong_tag, else the p tag with font-size: 18px: a tag that is found sets
\* the name, whatever its text
HasName(row) == row.strong.kind # "none" \/ row.p.kind # "none"
NameOf(row) == IF row.strong.kind # "none" THEN row.strong ELSE row.p

\* vendor_info_td.find("a", href=lambda x: x and "/detail/" in x)
DetailAnchors(row) == SelectSeq(row.anchors, LAMBDA h : h # <<>> /\ Contains(h, VenuePattern))
HasProfileLink(row) == DetailAnchors(row) # <<>>

\* f"{BASE_URL}{href}" if href.startswith("/") else href
AbsoluteUrl(href) == IF href[1] = "/" THEN <<BASE_URL>> \o href ELSE href

\* re.search(r"(\d+)\s*-\s*(\d+)", tables_text): the first number, dash,
\* number in the text
Numbers == {"10", "30"}
TablesMatches(text) ==
    { k \in 1..(Len(text) - 2) :
        text[k] \in Numbers /\ text[k + 1] = "-" /\ text[k + 2] \in Numbers }
TablesMatch(text) ==
    IF TablesMatches(text) = {} THEN NoneValue
    ELSE LET k == CHOOSE m \in TablesMatches(text) : \A o \in TablesMatches(text) : m <= o
         IN ListValue(<<StrValue(<<text[k]>>), StrValue(<<text[k + 2]>>)>>)

\* the hrefs of the fifth cell that are neither empty nor "#", made absolute
KeepPriceLink(href) == href # <<>> /\ href # <<"#">>
PriceListUrls(row) ==
    LET kept == SelectSeq(row.links, LAMBDA h : KeepPriceLink(h))
    IN [j \in 1..Len(kept) |-> StrValue(AbsoluteUrl(kept[j]))]

\* the keys vendor_data gets for a row
VendorKeys(row) ==
    (IF HasName(row) THEN {"name"} ELSE {})
        \cup (IF HasProfileLink(row) THEN {"profile_url"} ELSE {})
        \cup (IF Truthy(row.rating) THEN {"rating"} ELSE {})
        \cup {"lunch_price", "dinner_price", "tables_range"}
        \cup (IF Truthy(TablesMatch(row.tables)) THEN {"tables_min", "tables_max"} ELSE {})
        \cup (IF row.tds > MinCells /\ PriceListUrls(row) # <<>> THEN {"price_lists"} ELSE {})

\* vendor_data of a row of at least four cells
VendorData(row) ==
    [k \in VendorKeys(row) |->
        CASE k = "name" -> NameOf(row)
          [] k = "profile_url" -> StrValue(AbsoluteUrl(DetailAnchors(row)[1]))
          [] k = "rating" -> row.rating
          [] k = "lunch_price" -> StrValue(row.lunch)
          [] k = "dinner_price" -> StrValue(row.dinner)
          [] k = "tables_range" -> StrValue(row.tables)
          [] k = "tables_min" -> TablesMatch(row.tables).val[1]
          [] k = "tables_max" -> TablesMatch(row.tables).val[2]
          [] OTHER -> ListValue(PriceListUrls(row))]

\* (mutant) a row is kept when it has a detail-page link
RowEmittedWithLink(row, data) == row.tds >= MinCells /\ "profile_url" \in DOMAIN data

\* if len(tds) >= 4: ... if vendor_data.get("name"): vendors.append(vendor_data)
RowEmitted(row, data) ==
    row.tds >= MinCells /\ "name" \in DOMAIN data /\ Truthy(data.name)

\* for row in rows
RECURSIVE VendorsOf(_)
VendorsOf(rows) ==
    IF rows = <<>> THEN <<>>
    ELSE LET init == VendorsOf(SubSeq(rows, 1, Len(rows) - 1))
             row == rows[Len(rows)]
         IN IF RowEmitted(row, VendorData(row))
            THEN Append(init, DictValue(VendorData(row)))
            ELSE init

\* except Exception as e: print(...); return []
PricesExcept(outcome) == IF outcome.kind = "exc" THEN ListValue(<<>>) ELSE outcome

\* scrape_banquet_prices for the answer resp = [status, table, rows]
ScrapeBanquetPrices(resp) ==
    PricesExcept(IF resp.status # "ok" THEN Raised(resp.status)
                 ELSE IF ~resp.table THEN ListValue(<<>>)
                 ELSE ListValue(VendorsOf(resp.rows)))

\* no answer yet
NoPage == [status |-> "none", table |-> FALSE, rows |-> <<>>]

(***************************************************************************)
(* The inputs of a run.                                                    *)
(***************************************************************************)
\* --delay values: 0, 1/2 and 2, one for each branch of scrape_items
Delays == { [num |-> 0, den |-> 1], [num |-> 1, den |-> 2], [num |-> 2, den |-> 1] }

\* --limit values: absent (None) or an int
Limits == { NoneValue, IntValue(-1), IntValue(0), IntValue(1) }

\* the <loc> entries of the sitemaps the pipeline is run on, per entity type
PipelineLocs(e) ==
    IF e = "marketplace"
    THEN { MarketUrl("7", "gown"), MarketUrl("8", "cake") }
    ELSE { VenueUrl("1", "hall"), VenueUrlBare("1", "hall"), VenueUrlNoSlug("3") }

\* the sitemap responses: an error carries no entries
SitemapResponses(locs, n) ==
    { [status |-> "ok", locs |-> l] : l \in SeqsUpTo(locs, n) }
        \cup { [status |-> st, locs |-> <<>>] : st \in SitemapStatuses \ {"ok"} }

\* what a previous run of the venues scrape left for BASE_URL/detail/1/hall/:
\* its record in the output file and its menu under data/bb/price-lists
PriorRecord ==
    DictValue([id |-> StrValue(<<"1">>), slug |-> StrValue(<<"hall">>),
               url |-> StrValue(VenueUrl("1", "hall")),
               price_list_pdfs |-> ListValue(<<StrValue(
                   PdfUrl(StrValue(<<"hall">>), <<"menu", ".pdf">>))>>),
               has_price_list |-> BoolValue(TRUE),
               price_list_count |-> IntValue(1)])

PriorFiles ==
    [p \in {PdfSavePath(StrValue(<<"1">>), StrValue(<<"hall">>), <<"menu", ".pdf">>)}
        |-> "old"]

\* no previous run, or one
PreviousRuns ==
    { [output |-> <<>>, files |-> <<>>],
      [output |-> <<PriorRecord>>, files |-> PriorFiles] }

\* what a scraper_func other than the two of this module may do for an item
GenericOutcomes(url) ==
    { DictValue([url |-> StrValue(url)]), NoneValue, Raised("RuntimeError") }

\* the direct callers of scrape_items_parallel pass workers themselves
DirectWorkers == {1, 2}

\* the rows of the price-list table the model is run on: a full row for
\* venue 1, a named row with no detail link, a row with a link and no name,
\* a row of three cells, a row named by its p tag with an absolute link, and
\* a row whose strong tag is empty
TableRow(tds, strong, ptag, anchors, rating, tables, links) ==
    [tds |-> tds, strong |-> strong, p |-> ptag, anchors |-> anchors,
     rating |-> rating, lunch |-> <<"$88">>, dinner |-> <<"$98">>,
     tables |-> tables, links |-> links]

DetailHref(id, slug) == <<"/", "detail", "/", id, "/", slug, "/">>

PipelineRows ==
    { TableRow(5, StrValue(<<"Hall">>), NoneValue,
               << <<"/", "contact">>, DetailHref("1", "hall") >>,
               StrValue(<<"4.5">>), <<"10", "-", "30">>,
               << <<"/", "menu", ".pdf">>, <<"#">> >>),
      TableRow(4, StrValue(<<"Inn">>), NoneValue, << <<"/", "contact">> >>,
               NoneValue, <<"TBC">>, <<>>) }

Rows ==
    PipelineRows \cup
    { TableRow(5, NoneValue, NoneValue, << DetailHref("2", "inn") >>,
               StrValue(<<"4.0">>), <<"10", "-", "30">>, <<>>),
      TableRow(3, StrValue(<<"Hall">>), NoneValue, << DetailHref("1", "hall") >>,
               NoneValue, <<"TBC">>, <<>>),
      TableRow(4, NoneValue, StrValue(<<"Loft">>), << VenueUrl("4", "loft") >>,
               NoneValue, <<"from", "10", "-", "30", "tables">>, <<>>),
      TableRow(4, StrValue(<<>>), NoneValue, << DetailHref("5", "pier") >>,
               NoneValue, <<"TBC">>, <<>>) }

\* the answers to the request for the price-list page: a table of at most n
\* rows, a page with no table, an error status, a transport error
PricePages(rows, n) ==
    { [status |-> "ok", table |-> TRUE, rows |-> r] : r \in SeqsUpTo(rows, n) }
        \cup { [status |-> "ok", table |-> FALSE, rows |-> <<>>] }
        \cup { [status |-> st, table |-> FALSE, rows |-> <<>>] :
                  st \in {"http_error", "transport_error"} }

\* the pages main is run on for each type
PagesOf(t) == PricePages(IF t = "all" THEN PipelineRows ELSE Rows, MaxRows)

\* the sizes of the pages the listings server of the model may hold
PageSizes == {0, 1, PageSize}
\* a page is answered with its listings, or client.execute raises
ServerPages ==
    { [status |-> "ok", n |-> k] : k \in PageSizes }
        \cup { [status |-> "transport_error", n |-> 0] }
Servers == SeqsUpTo(ServerPages, MaxPages)

\* the limit argument of scrape_venues: None or an int
TwnLimits == { NoneValue, IntValue(0), IntValue(1), IntValue(PageSize), IntValue(PageSize + 1) }

Tasks == DOMAIN pc

\* a coroutine that can take a permit is ready to run: the event loop runs
\* what is ready before it handles the answer to a request
SomeReady == \E i \in Tasks : pc[i] = "queued" /\ CanAcquire(sem)

InFlight == { i \in Tasks : pc[i] \in {"page", "listing", "pdf", "run"} }

Init ==
    /\ phase = "start"
    /\ entry \in {"venues", "marketplace", "direct"}
    /\ delay \in Delays
    /\ workers \in (IF entry = "direct" THEN DirectWorkers ELSE {0})
    /\ entry = "direct" => delay = [num |-> 0, den |-> 1]
    /\ limit \in Limits
    /\ sitemap \in SitemapResponses(PipelineLocs(entry), MaxLocs)
    /\ \E prev \in PreviousRuns :
          /\ entry # "venues" => prev.output = <<>>
          /\ prior = prev.output
          /\ fs = prev.files
    /\ urls = <<>>
    /\ sem = 0
    /\ clientOpen = FALSE
    /\ pc = <<>>
    /\ cur = <<>>
    /\ result = <<>>
    /\ calls = <<>>
    /\ dl = <<>>
    /\ gets = <<>>
    /\ items = <<>>
    /\ saved = SaveToFiles(prior, NoFiles)
    /\ exitStatus = -1
    /\ type = entry
    /\ marketSaved = NoFiles
    /\ pricePage = NoPage
    /\ vendors = <<>>
    /\ pricesSaved = NoFiles
    /\ twn = TwnIdle

(***************************************************************************)
(* main -> scrape_items -> scrape_items_parallel, up to the gather: the    *)
(* worker count, the sitemap, the limit, the client, the semaphore and one *)
(* coroutine per URL.                                                      *)
(***************************************************************************)
ScrapeItemsCall ==
    /\ phase = "start"
    /\ LET w == IF entry = "direct" THEN workers ELSE WorkersFromDelay(delay)
           got == GetUrlsFromSitemap(sitemap, PatternOf(entry))
       IN IF got.kind = "exc"
          THEN /\ phase' = "exit"
               /\ exitStatus' = ExitStatusOf(got)
               /\ UNCHANGED <<workers, urls, sem, clientOpen, pc, cur, result, calls, dl>>
          ELSE LET list == ApplyLimit(got.val, limit)
               IN /\ phase' = "gather"
                  /\ workers' = w
                  /\ urls' = list
                  /\ sem' = w
                  /\ clientOpen' = TRUE
                  /\ pc' = [i \in 1..Len(list) |-> "queued"]
                  /\ cur' = [i \in 1..Len(list) |-> NoLocals]
                  /\ result' = [i \in 1..Len(list) |-> NoneValue]
                  /\ calls' = [i \in 1..Len(list) |-> 0]
                  /\ dl' = [i \in 1..Len(list) |-> <<>>]
                  /\ UNCHANGED exitStatus
    /\ UNCHANGED <<entry, delay, limit, sitemap, prior, fs, gets, items, saved>>
    /\ UNCHANGED others

\* task i ends: its value or exception is what gather keeps, and leaving the
\* async with block gives the permit back
Finish(i, outcome) ==
    /\ result' = [result EXCEPT ![i] = outcome]
    /\ pc' = [pc EXCEPT ![i] = "done"]

(***************************************************************************)
(* scrape_with_semaphore(url, i): the permit is taken and scraper_func is  *)
(* called; it runs to its first await.  Waiters are served in the order    *)
(* the coroutines were created.                                            *)
(***************************************************************************)
TaskStart(i) ==
    /\ phase = "gather"
    /\ pc[i] = "queued"
    /\ \A j \in 1..(i - 1) : pc[j] # "queued"
    /\ CanAcquire(sem)
    /\ calls' = [calls EXCEPT ![i] = @ + 1]
    /\ CASE entry = "venues" ->
              /\ pc' = [pc EXCEPT ![i] = "page"]
              /\ sem' = Acquire(sem)
              /\ UNCHANGED result
         [] entry = "marketplace" ->
              /\ Finish(i, MarketplaceCall)
              /\ sem' = Release(Acquire(sem))
         [] OTHER ->
              /\ pc' = [pc EXCEPT ![i] = "run"]
              /\ sem' = Acquire(sem)
              /\ UNCHANGED result
    /\ UNCHANGED <<phase, entry, delay, limit, sitemap, prior, workers, urls,
                   clientOpen, cur, dl, fs, gets, items, saved, exitStatus>>
    /\ UNCHANGED others

\* a scraper_func other than the two of this module returns or raises
GenericReturn(i, outcome) ==
    /\ pc[i] = "run"
    /\ ~SomeReady
    /\ Finish(i, outcome)
    /\ sem' = Release(sem)
    /\ UNCHANGED <<phase, entry, delay, limit, sitemap, prior, workers, urls,
                   clientOpen, cur, calls, dl, fs, gets, items, saved, exitStatus>>
    /\ UNCHANGED others

(***************************************************************************)
(* scrape_venue_detail: the answer to the page request arrives.  A failed  *)
(* request and a URL with no slug segment raise into the outer except.     *)
(***************************************************************************)
PageResponse(i, resp) ==
    /\ pc[i] = "page"
    /\ ~SomeReady
    /\ LET ids == IF resp # "ok" THEN Raised(resp) ELSE ExtractIdSlug(urls[i])
       IN IF ids.kind = "exc"
          THEN /\ Finish(i, OuterExcept(ids))
               /\ sem' = Release(sem)
               /\ cur' = [cur EXCEPT ![i].loaded = (resp = "ok")]
          ELSE /\ cur' = [cur EXCEPT ![i] = [NoLocals EXCEPT !.loaded = TRUE,
                                                             !.id = ids.id,
                                                             !.slug = ids.slug]]
               /\ pc' = [pc EXCEPT ![i] = "listing"]
               /\ UNCHANGED <<result, sem>>
    /\ UNCHANGED <<phase, entry, delay, limit, sitemap, prior, workers, urls,
                   clientOpen, calls, dl, fs, gets, items, saved, exitStatus>>
    /\ UNCHANGED others

\* the pdf loop of task i goes on from link k with the files as they are now
ContinueLoop(i, c, k, pdfs, log, files) ==
    LET r == PdfLoop(c, k, pdfs, log, files)
    IN /\ dl' = [dl EXCEPT ![i] = r.log]
       /\ fs' = files
       /\ IF r.waiting
          THEN /\ cur' = [cur EXCEPT ![i] = [c EXCEPT !.k = r.k, !.pdfs = r.pdfs]]
               /\ pc' = [pc EXCEPT ![i] = "pdf"]
               /\ gets' = CountUp(gets, PdfSavePath(c.id, c.slug, c.links[r.k]))
               /\ UNCHANGED <<result, sem>>
          ELSE /\ cur' = [cur EXCEPT ![i] = [c EXCEPT !.k = r.k, !.pdfs = r.pdfs]]
               /\ Finish(i, OuterExcept(DataWithPdfs(c, urls[i], r.pdfs)))
               /\ sem' = Release(sem)
               /\ UNCHANGED gets

\* the answer to the price-list page request arrives
ListingResponse(i, resp, anchors) ==
    /\ pc[i] = "listing"
    /\ ~SomeReady
    /\ IF resp # "ok" \/ PdfLinks(anchors) = <<>>
       THEN /\ Finish(i, OuterExcept(
                    IF resp # "ok"
                    THEN ListingExcept(Raised(resp), cur[i], urls[i])
                    ELSE DataNoPdfs(cur[i], urls[i])))
            /\ sem' = Release(sem)
            /\ UNCHANGED <<cur, dl, fs, gets>>
       ELSE ContinueLoop(i, [cur[i] EXCEPT !.links = PdfLinks(anchors)], 1, <<>>, <<>>, fs)
    /\ UNCHANGED <<phase, entry, delay, limit, sitemap, prior, workers, urls,
                   clientOpen, calls, items, saved, exitStatus>>
    /\ UNCHANGED others

\* the answer to download_pdf's request arrives: the file is written or the
\* exception swallowed, and the loop goes on with the next link
PdfResponse(i, resp) ==
    /\ pc[i] = "pdf"
    /\ ~SomeReady
    /\ LET c == cur[i]
           path == PdfSavePath(c.id, c.slug, c.links[c.k])
           success == DownloadExcept(DownloadBody(resp))
           files == IF resp = "ok" THEN WriteFile(fs, path, "new") ELSE fs
           log == [dl[i] EXCEPT ![Len(dl[i])] =
                      [@ EXCEPT !.wrote = (resp = "ok"), !.ok = Truthy(success),
                                !.open = FALSE]]
           pdfs == IF Truthy(success)
                   THEN Append(c.pdfs, PdfUrl(c.slug, c.links[c.k]))
                   ELSE c.pdfs
       IN IF success.kind = "exc"
          THEN /\ Finish(i, OuterExcept(ListingExcept(success, c, urls[i])))
               /\ sem' = Release(sem)
               /\ dl' = [dl EXCEPT ![i] = log]
               /\ UNCHANGED <<cur, fs, gets>>
          ELSE ContinueLoop(i, c, c.k + 1, pdfs, log, files)
    /\ UNCHANGED <<phase, entry, delay, limit, sitemap, prior, workers, urls,
                   clientOpen, calls, items, saved, exitStatus>>
    /\ UNCHANGED others

(***************************************************************************)
(* The gather resumes: the results are filtered into items in task order,  *)
(* the async with block closes the client and scrape_items_parallel        *)
(* returns.                                                                *)
(***************************************************************************)
GatherReturn ==
    /\ phase = "gather"
    /\ GatherReady(pc)
    /\ items' = CollectItems(result)
    /\ clientOpen' = FALSE
    /\ phase' = "returned"
    /\ UNCHANGED <<entry, delay, limit, sitemap, prior, workers, urls, sem, pc,
                   cur, result, calls, dl, fs, gets, saved, exitStatus>>
    /\ UNCHANGED others

\* main: save_to_files(venues, output_path), the summary, and the normal end
MainFinish ==
    /\ phase = "returned"
    /\ entry # "direct"
    /\ IF entry = "venues"
       THEN saved' = SaveToFiles(items, saved) /\ UNCHANGED marketSaved
       ELSE marketSaved' = SaveToFiles(items, marketSaved) /\ UNCHANGED saved
    /\ CASE type = "all" /\ entry = "venues" ->
              entry' = "marketplace" /\ phase' = "start" /\ UNCHANGED exitStatus
         [] type = "all" /\ entry = "marketplace" ->
              phase' = "prices" /\ UNCHANGED <<entry, exitStatus>>
         [] OTHER ->
              /\ exitStatus' = ExitStatusOf(NoneValue)
              /\ phase' = "exit"
              /\ UNCHANGED entry
    /\ UNCHANGED <<delay, limit, sitemap, prior, workers, urls, sem,
                   clientOpen, pc, cur, result, calls, dl, fs, gets, items>>
    /\ UNCHANGED <<type, pricePage, vendors, pricesSaved, twn>>

\* main, type banquet-prices or all: vendors = scrape_banquet_prices() for
\* the answer resp to its request, save_to_files(vendors, ...), the summary
\* and the normal end
BanquetPrices(resp) ==
    /\ phase = "prices"
    /\ pricePage' = resp
    /\ vendors' = ScrapeBanquetPrices(resp).val
    /\ pricesSaved' = SaveToFiles(vendors', pricesSaved)
    /\ exitStatus' = ExitStatusOf(NoneValue)
    /\ phase' = "exit"
    /\ UNCHANGED <<entry, delay, limit, sitemap, prior, workers, urls, sem,
                   clientOpen, pc, cur, result, calls, dl, fs, gets, items,
                   saved, type, marketSaved, twn>>

\* scrape_venues (src/twn/main.py): one turn of its while loop, for the
\* answer of the server to the request for the current page
ScrapeVenuesPage ==
    /\ twn.pc = "loop"
    /\ LET got == Execute(twn.server, twn.page)
       IN IF got.kind = "exc"
          THEN twn' = [twn EXCEPT !.pc = "raised"]
          ELSE LET listings == got.val
                   all == twn.all \o listings
               IN IF LimitReached(twn.limit, all, listings)
                  THEN twn' = [twn EXCEPT !.all = SliceTo(all, twn.limit.val),
                                          !.pc = "done"]
                  ELSE IF LastPage(listings)
                  THEN twn' = [twn EXCEPT !.all = all, !.pc = "done"]
                  ELSE twn' = [twn EXCEPT !.all = all, !.page = @ + 1]
    /\ UNCHANGED <<phase, entry, delay, limit, sitemap, prior, workers, urls, sem,
                   clientOpen, pc, cur, result, calls, dl, fs, gets, items,
                   saved, exitStatus, type, marketSaved, pricePage, vendors,
                   pricesSaved>>

Next ==
    \/ ScrapeItemsCall
    \/ \E i \in Tasks : TaskStart(i)
    \/ \E i \in Tasks : \E o \in GenericOutcomes(urls[i]) : GenericReturn(i, o)
    \/ \E i \in Tasks : \E r \in Responses : PageResponse(i, r)
    \/ \E i \in Tasks : \E r \in Responses : \E a \in SeqsUpTo(Hrefs, MaxLinks) :
            ListingResponse(i, r, a)
    \/ \E i \in Tasks : \E r \in Responses : PdfResponse(i, r)
    \/ GatherReturn
    \/ MainFinish

Spec == Init /\ [][Next]_vars

(***************************************************************************)
(* Properties of the scheduler and of the venue fetcher, under Spec.       *)
(***************************************************************************)
Returned == phase \in {"returned", "exit"} /\ exitStatus # 1

\* C1: at every point of every interleaving the number of scraper_func
\* invocations that have started and not finished is at most workers.
C1_InFlightAtMostWorkers == Cardinality(InFlight) <= workers

\* C1 witness: the semaphore binds: as many invocations in flight as there
\* are permits while another URL waits for one.
C1_Witness ==
    /\ phase = "gather"
    /\ Cardinality(InFlight) = workers
    /\ \E i \in Tasks : pc[i] = "queued"

\* the results that are a record: neither an exception nor None
Good(i) == result[i].kind \notin {"exc", "none"}

\* C2: when scraper_func raises for some items, every other item is still
\* dispatched and run to its end, the batch is never stuck and returns, and
\* the returned list holds exactly one record for each item that neither
\* raised nor returned None.
C2_RaisingItemsOnlyOmitted ==
    /\ phase = "gather" => ENABLED Next
    /\ Returned =>
          /\ \A i \in Tasks : calls[i] = 1 /\ pc[i] = "done"
          /\ Len(items) = Cardinality({ i \in Tasks : Good(i) })
          /\ \A i \in Tasks :
                Good(i) => Cardinality({ j \in 1..Len(items) : items[j] = result[i] }) = 1
          /\ \A j \in 1..Len(items) : \E i \in Tasks : Good(i) /\ items[j] = result[i]

\* C2 witness: a batch has returned in which one item raised and a later
\* item produced a record that is in the returned list.
C2_Witness ==
    /\ phase = "returned"
    /\ \E i, j \in Tasks :
          /\ i < j
          /\ result[i].kind = "exc"
          /\ result[j].kind = "dict"
          /\ items = <<result[j]>>

\* C3: once scrape_items_parallel has returned, the client is closed and no
\* item is unfinished: no page or price-list request and no download_pdf
\* request is waiting for its answer.
C3_ReturnsAfterAllFinished ==
    (phase \in {"returned", "exit"} \/ (phase = "gather" /\ ~clientOpen)) =>
        /\ ~clientOpen
        /\ InFlight = {}
        /\ \A i \in Tasks :
              /\ pc[i] = "done"
              /\ \A n \in 1..Len(dl[i]) : ~dl[i][n].open

\* C3 witness: a batch of two URLs has returned after a download_pdf request
\* was made for one of them.
C3_Witness ==
    /\ phase = "returned"
    /\ ~clientOpen
    /\ Len(urls) >= 2
    /\ \E i \in Tasks : \E n \in 1..Len(dl[i]) : dl[i][n].request

\* the identifier of a URL: the segment that follows /detail/, if any
IdentifierOf(url) ==
    IF Contains(url, VenuePattern)
    THEN Split(Split(url, VenuePattern)[2], <<"/">>)[1]
    ELSE <<>>

\* the Item Cache: the records of the prior output file, by identifier
CachedIds == { prior[j].val.id.val : j \in 1..Len(prior) }

\* C4 (as claimed): a URL whose identifier is in the Item Cache is resolved
\* to the cached record without the fetcher being invoked for it, and the
\* record emitted for it is the cached one.
C4_CachedUrlsNotFetched ==
    \A i \in Tasks :
        IdentifierOf(urls[i]) \in CachedIds =>
            /\ calls[i] = 0
            /\ Returned =>
                  \E j \in 1..Len(items) : \E c \in 1..Len(prior) : items[j] = prior[c]

\* C5: scrape_venue_detail never raises into its caller: whatever the page
\* request, the price-list request and the downloads do, gather gets a
\* record or None for it, and None whenever the page request failed.
C5_VenueDetailNeverRaises ==
    entry = "venues" =>
        \A i \in Tasks :
            /\ result[i].kind # "exc"
            /\ pc[i] = "done" => result[i].kind \in {"dict", "none"}
            /\ (pc[i] = "done" /\ ~cur[i].loaded) => result[i] = NoneValue

\* C5 witness: one fetch has returned None after a failed page request and
\* another has returned a record although a download of it failed.
C5_Witness ==
    /\ entry = "venues"
    /\ \E i, j \in Tasks :
          /\ pc[i] = "done" /\ ~cur[i].loaded /\ result[i] = NoneValue
          /\ pc[j] = "done" /\ result[j].kind = "dict"
          /\ \E n \in 1..Len(dl[j]) : dl[j][n].request /\ ~dl[j][n].ok /\ ~dl[j][n].open

\* the destination of link n of task i
PathOf(i, n) == PdfSavePath(cur[i].id, cur[i].slug, cur[i].links[n])

\* how many download_pdf calls of a log returned True
RECURSIVE OkCount(_)
OkCount(log) ==
    IF log = <<>> THEN 0
    ELSE OkCount(SubSeq(log, 1, Len(log) - 1)) + (IF log[Len(log)].ok THEN 1 ELSE 0)

\* C6: a download_pdf call whose destination exists makes no request, does
\* not write the file and returns True, and its link is counted in the
\* record's price_list_count; a file of a previous run keeps its content and
\* no request is ever made for it.
C6_ExistingDestinationSkipped ==
    /\ \A i \in Tasks : \A n \in 1..Len(dl[i]) :
          dl[i][n].existed =>
              /\ ~dl[i][n].request
              /\ ~dl[i][n].wrote
              /\ dl[i][n].ok
              /\ (pc[i] = "done" /\ result[i].kind = "dict") =>
                    /\ result[i].val.price_list_count.val >= 1
                    /\ \E m \in 1..Len(result[i].val.price_list_pdfs.val) :
                          result[i].val.price_list_pdfs.val[m]
                              = StrValue(PdfUrl(cur[i].slug, cur[i].links[dl[i][n].link]))
    /\ prior # <<>> =>
          \A p \in DOMAIN PriorFiles :
              /\ p \in DOMAIN fs
              /\ fs[p] = PriorFiles[p]
              /\ p \notin DOMAIN gets

\* C6 witness: a fetch has ended with a record after download_pdf found the
\* file of a previous run at its destination.
C6_Witness ==
    /\ prior # <<>>
    /\ \E i \in Tasks :
          /\ pc[i] = "done"
          /\ result[i].kind = "dict"
          /\ \E n \in 1..Len(dl[i]) : dl[i][n].existed /\ PathOf(i, n) \in DOMAIN PriorFiles

\* C7: a failed download neither fails the record nor stops the remaining
\* links from being tried; price_list_count is the number of download_pdf
\* calls that returned True, has_price_list is true exactly when it is
\* positive, and both are False/0 when no .pdf link was found or the
\* price-list page could not be fetched.
C7_PriceListCount ==
    entry = "venues" =>
        \A i \in Tasks :
            pc[i] = "done" =>
                /\ dl[i] # <<>> => result[i].kind = "dict"
                /\ result[i].kind = "dict" =>
                      /\ Len(dl[i]) = Len(cur[i].links)
                      /\ result[i].val.price_list_count = IntValue(OkCount(dl[i]))
                      /\ result[i].val.has_price_list = BoolValue(OkCount(dl[i]) > 0)
                      /\ cur[i].links = <<>> =>
                            /\ result[i].val.has_price_list = BoolValue(FALSE)
                            /\ result[i].val.price_list_count = IntValue(0)

\* C7 witness: a record whose first download failed and whose second
\* succeeded: price_list_count is 1.
C7_Witness ==
    \E i \in Tasks :
        /\ pc[i] = "done"
        /\ result[i].kind = "dict"
        /\ Len(dl[i]) = 2
        /\ dl[i][1].request /\ ~dl[i][1].ok
        /\ dl[i][2].ok
        /\ result[i].val.price_list_count = IntValue(1)
        /\ result[i].val.has_price_list = BoolValue(TRUE)

(***************************************************************************)
(* get_urls_from_sitemap on its own: main's call with every sitemap of at  *)
(* most MaxSitemapLen entries over Locs, stopped once the URL list is      *)
(* there.                                                                  *)
(***************************************************************************)
InitSitemap ==
    /\ phase = "start"
    /\ entry \in {"venues", "marketplace"}
    /\ delay = [num |-> 0, den |-> 1]
    /\ workers = 0
    /\ limit = NoneValue
    /\ sitemap \in SitemapResponses(Locs, MaxSitemapLen)
    /\ prior = <<>>
    /\ fs = <<>>
    /\ urls = <<>>
    /\ sem = 0
    /\ clientOpen = FALSE
    /\ pc = <<>>
    /\ cur = <<>>
    /\ result = <<>>
    /\ calls = <<>>
    /\ dl = <<>>
    /\ gets = <<>>
    /\ items = <<>>
    /\ saved = NoFiles
    /\ exitStatus = -1
    /\ type = entry
    /\ marketSaved = NoFiles
    /\ pricePage = NoPage
    /\ vendors = <<>>
    /\ pricesSaved = NoFiles
    /\ twn = TwnIdle

NextSitemap == ScrapeItemsCall

SpecSitemap == InitSitemap /\ [][NextSitemap]_vars

\* the place of the first occurrence of u in s
FirstIndex(s, u) == CHOOSE j \in 1..Len(s) : s[j] = u /\ \A m \in 1..(j - 1) : s[m] # u

\* C8: the list get_urls_from_sitemap returns has no duplicate, holds
\* exactly the <loc> entries that contain the pattern, and lists them in the
\* order of their first occurrence in the sitemap.
C8_SitemapUrls ==
    phase = "gather" =>
        /\ \A a, b \in 1..Len(urls) : urls[a] = urls[b] => a = b
        /\ { urls[j] : j \in 1..Len(urls) }
              = { sitemap.locs[j] : j \in { m \in 1..Len(sitemap.locs) :
                                              Contains(sitemap.locs[m], PatternOf(entry)) } }
        /\ \A a, b \in 1..Len(urls) :
              a < b => FirstIndex(sitemap.locs, urls[a]) < FirstIndex(sitemap.locs, urls[b])

\* C8 witness: a sitemap of three entries whose first and last are the same
\* URL, with an entry between them that does not match: one URL is returned.
C8_Witness ==
    /\ phase = "gather"
    /\ Len(sitemap.locs) = 3
    /\ sitemap.locs[1] = sitemap.locs[3]
    /\ ~Contains(sitemap.locs[2], PatternOf(entry))
    /\ urls = <<sitemap.locs[1]>>

FieldValues(key) ==
    CASE key = "id" -> { StrValue(<<"1">>) }
      [] key = "name" -> { StrValue(<<"Hall">>), NoneValue }
      [] OTHER -> { ListValue(<<>>), ListValue(<<StrValue(<<"a">>)>>),
                    ListValue(<<StrValue(<<"a">>), StrValue(<<"b">>)>>) }

\* records with any of the keys id, name, price_list_pdfs
SaveRecords ==
    { DictValue(f) : f \in UNION { { g \in [K -> UNION { FieldValues(k) : k \in K }] :
                                       \A k \in K : g[k] \in FieldValues(k) } :
                                   K \in SUBSET {"id", "name", "price_list_pdfs"} } }

InitSave ==
    /\ phase = "returned"
    /\ entry = "venues"
    /\ delay = [num |-> 0, den |-> 1]
    /\ workers = DefaultWorkers
    /\ limit = NoneValue
    /\ sitemap = [status |-> "ok", locs |-> <<>>]
    /\ prior \in { <<>>, <<PriorRecord>> }
    /\ fs = <<>>
    /\ urls = <<>>
    /\ sem = DefaultWorkers
    /\ clientOpen = FALSE
    /\ pc = <<>>
    /\ cur = <<>>
    /\ result = <<>>
    /\ calls = <<>>
    /\ dl = <<>>
    /\ gets = <<>>
    /\ items \in SeqsUpTo(SaveRecords, MaxRecords)
    /\ saved = SaveToFiles(prior, NoFiles)
    /\ exitStatus = -1
    /\ type = "venues"
    /\ marketSaved = NoFiles
    /\ pricePage = NoPage
    /\ vendors = <<>>
    /\ pricesSaved = NoFiles
    /\ twn = TwnIdle

NextSave == MainFinish

SpecSave == InitSave /\ [][NextSave]_vars

\* C10: for a non-empty record list the CSV header is the sorted union of
\* the keys of all records, there is one row per record in input order with
\* one cell per column, a cell is empty where the record lacks the key, and
\* a list value is one cell holding its JSON text.
C10_CsvOfAllRecords ==
    (phase = "exit" /\ items # <<>>) =>
        LET header == saved.csv.header
            rows == saved.csv.rows
        IN /\ { header[j] : j \in 1..Len(header) }
                 = { k \in { KeyOrder[j] : j \in 1..Len(KeyOrder) } :
                       \E n \in 1..Len(items) : k \in DOMAIN items[n].val }
           /\ \A a, b \in 1..Len(header) : a < b => KeyRank(header[a]) < KeyRank(header[b])
           /\ Len(rows) = Len(items)
           /\ \A n \in 1..Len(items) :
                 /\ Len(rows[n]) = Len(header)
                 /\ \A j \in 1..Len(header) :
                       IF header[j] \notin DOMAIN items[n].val
                       THEN rows[n][j] = <<>>
                       ELSE LET v == items[n].val[header[j]]
                            IN CASE v.kind = "list" -> rows[n][j] = JsonDumps(v.val)
                                 [] v.kind = "str" -> rows[n][j] = v.val
                                 [] OTHER -> rows[n][j] = <<>>

\* C10 witness: two records were saved, the second has a key the first
\* lacks, and the first has a list of two elements in one cell.
C10_Witness ==
    /\ phase = "exit"
    /\ Len(items) = 2
    /\ "name" \notin DOMAIN items[1].val
    /\ "name" \in DOMAIN items[2].val
    /\ "price_list_pdfs" \in DOMAIN items[1].val
    /\ Len(items[1].val.price_list_pdfs.val) = 2
    /\ saved.csv.header = <<"name", "price_list_pdfs">>
    /\ saved.csv.rows[1] = <<<<>>, <<"[", "\"", "a", "\"", ", ", "\"", "b", "\"", "]">>>>

(***************************************************************************)
(* save_to_files with nothing to save, under SpecSave.                     *)
(***************************************************************************)
\* C11: save_to_files called with an empty list returns without creating
\* the output directory and without writing the JSON or the CSV file: what
\* a previous run left is still there unchanged, and the call does not
\* raise (the run ends with status 0).
C11_EmptySaveIsNoOp ==
    (phase = "exit" /\ items = <<>>) =>
        /\ saved = SaveToFiles(prior, NoFiles)
        /\ (prior = <<>> => saved = NoFiles)
        /\ (prior # <<>> => saved.json = prior)
        /\ exitStatus = 0

\* C11 witness: main has saved an empty list over the output of a previous
\* run.
C11_Witness ==
    /\ phase = "exit"
    /\ items = <<>>
    /\ prior = <<PriorRecord>>
    /\ saved.exists
    /\ saved.json = <<PriorRecord>>

(***************************************************************************)
(* More properties of the venue fetcher and of the scheduler, under Spec.  *)
(***************************************************************************)
\* C12 (as claimed): when the page of a venue URL has loaded, the fetch
\* returns a record even if the URL has no identifier or no slug where one
\* is expected: the missing field is null, and the fetch does not return
\* None.
C12_RecordWithoutSlug ==
    entry = "venues" =>
        \A i \in Tasks :
            (pc[i] = "done" /\ cur[i].loaded) =>
                /\ result[i].kind = "dict"
                /\ result[i].val.url = StrValue(urls[i])

\* C13 (as claimed): scrape_items, driven by a delay, runs one fetch at a
\* time whatever the delay is: the worker count is 1 and no two scraper
\* invocations are in flight together.
C13_DelayMeansOneWorker ==
    (entry \in {"venues", "marketplace"} /\ phase # "start") =>
        /\ workers = 1
        /\ Cardinality(InFlight) <= 1

\* the attachment URL of entry n of the download log of task i
LoggedUrl(i, n) == PdfUrl(cur[i].slug, cur[i].links[dl[i][n].link])

\* C14 (as claimed): within one scrape_venue_detail call no attachment URL
\* is passed to download_pdf twice, and none appears twice in
\* price_list_pdfs.
C14_PdfLinksDeduplicated ==
    \A i \in Tasks :
        /\ \A n, m \in 1..Len(dl[i]) : n # m => LoggedUrl(i, n) # LoggedUrl(i, m)
        /\ (pc[i] = "done" /\ result[i].kind = "dict"
               /\ "price_list_pdfs" \in DOMAIN result[i].val) =>
              LET pdfs == result[i].val.price_list_pdfs.val
              IN \A a, b \in 1..Len(pdfs) : a # b => pdfs[a] # pdfs[b]

\* the first n elements of a list, none for n <= 0
FirstN(list, n) == SubSeq(list, 1, IF n < 0 THEN 0 ELSE IF n > Len(list) THEN Len(list) ELSE n)

\* C18 (as claimed): with --limit n the URLs dispatched are the first n of
\* the deduplicated sitemap list, for every integer n: none for n = 0 and
\* for a negative n.
C18_LimitBoundsDispatch ==
    (phase # "start" /\ limit.kind = "int" /\ sitemap.status = "ok") =>
        /\ Len(urls) <= (IF limit.val < 0 THEN 0 ELSE limit.val)
        /\ urls = FirstN(GetUrlsFromSitemap(sitemap, PatternOf(entry)).val, limit.val)
        /\ Returned => Len(items) <= (IF limit.val < 0 THEN 0 ELSE limit.val)

\* C19 (as claimed): on the marketplace path the scheduler's call of the
\* scraper does not itself fail: no marketplace URL ends as a per-item
\* exception, and the list returned has a record for every URL dispatched.
C19_MarketplaceRecords ==
    entry = "marketplace" =>
        /\ \A i \in Tasks : result[i].kind # "exc"
        /\ Returned => Len(items) = Len(urls)

\* the position in the URL list of the URL a record was scraped from
UrlIndex(record) == CHOOSE i \in 1..Len(urls) : StrValue(urls[i]) = record.val.url

\* C20: the list scrape_items_parallel returns is in the order of the URL
\* list, whatever the order the fetches completed in, and holds at most one
\* record per URL: each record is the result of the task of its URL, and a
\* record of an earlier URL comes before a record of a later one.
C20_ItemsInUrlOrder ==
    Returned =>
        /\ \A a \in 1..Len(items) :
              /\ \E i \in 1..Len(urls) : StrValue(urls[i]) = items[a].val.url
              /\ items[a] = result[UrlIndex(items[a])]
        /\ \A a, b \in 1..Len(items) :
              a < b => UrlIndex(items[a]) < UrlIndex(items[b])

\* C20 witness: the second task wrote the file the first task then found at
\* its destination, so the second fetch completed before the first; both
\* records are returned, the first URL's first.
C20_Witness ==
    /\ Returned
    /\ prior = <<>>
    /\ Len(urls) = 2
    /\ Len(cur[2].links) = 1
    /\ Len(dl[1]) = 1 /\ Len(dl[2]) = 1
    /\ dl[2][1].wrote
    /\ dl[1][1].existed
    /\ Len(items) = 2
    /\ items[1].val.url = StrValue(urls[1])
    /\ items[2].val.url = StrValue(urls[2])

(***************************************************************************)
(* main with type all: the venues, then the marketplace packages, then the *)
(* banquet prices, with the default delay and no limit.  Both sitemap      *)
(* requests are answered with the same document.                           *)
(***************************************************************************)
\* --delay default=1.0
DefaultDelay == [num |-> 1, den |-> 1]

\* the <loc> entries of the sitemaps a run of type all is made on
AllLocs == { VenueUrl("1", "hall"), MarketUrl("7", "gown") }

InitAll ==
    /\ phase = "start"
    /\ type = "all"
    /\ entry = "venues"
    /\ delay = DefaultDelay
    /\ workers = 0
    /\ limit = NoneValue
    /\ sitemap \in SitemapResponses(AllLocs, MaxLocs)
    /\ prior = <<>>
    /\ fs = <<>>
    /\ urls = <<>>
    /\ sem = 0
    /\ clientOpen = FALSE
    /\ pc = <<>>
    /\ cur = <<>>
    /\ result = <<>>
    /\ calls = <<>>
    /\ dl = <<>>
    /\ gets = <<>>
    /\ items = <<>>
    /\ saved = NoFiles
    /\ exitStatus = -1
    /\ marketSaved = NoFiles
    /\ pricePage = NoPage
    /\ vendors = <<>>
    /\ pricesSaved = NoFiles
    /\ twn = TwnIdle

NextAll ==
    \/ ScrapeItemsCall
    \/ \E i \in Tasks : TaskStart(i)
    \/ \E i \in Tasks : \E r \in Responses : PageResponse(i, r)
    \/ \E i \in Tasks : \E r \in Responses : \E a \in SeqsUpTo(Hrefs, MaxLinks) :
            ListingResponse(i, r, a)
    \/ \E i \in Tasks : \E r \in Responses : PdfResponse(i, r)
    \/ GatherReturn
    \/ MainFinish
    \/ \E r \in PagesOf(type) : BanquetPrices(r)

SpecAll == InitAll /\ [][NextAll]_vars

\* the keys scrape_banquet_prices gives an entry besides name and profile_url
PricingKeys ==
    {"rating", "lunch_price", "dinner_price", "tables_min", "tables_max",
     "tables_range", "price_lists"}

\* the entries of the pricing list whose profile_url holds an identifier
PricedIds ==
    { IdentifierOf(vendors[j].val.profile_url.val) :
        j \in { m \in 1..Len(vendors) : "profile_url" \in DOMAIN vendors[m].val } }

InitPrices ==
    /\ phase = "prices"
    /\ type = "banquet-prices"
    /\ entry = "banquet-prices"
    /\ delay = DefaultDelay
    /\ workers = 0
    /\ limit = NoneValue
    /\ sitemap = [status |-> "ok", locs |-> <<>>]
    /\ prior = <<>>
    /\ fs = <<>>
    /\ urls = <<>>
    /\ sem = 0
    /\ clientOpen = FALSE
    /\ pc = <<>>
    /\ cur = <<>>
    /\ result = <<>>
    /\ calls = <<>>
    /\ dl = <<>>
    /\ gets = <<>>
    /\ items = <<>>
    /\ saved = NoFiles
    /\ exitStatus = -1
    /\ marketSaved = NoFiles
    /\ pricePage = NoPage
    /\ vendors = <<>>
    /\ pricesSaved = NoFiles
    /\ twn = TwnIdle

NextPrices == \E r \in PagesOf(type) : BanquetPrices(r)

SpecPrices == InitPrices /\ [][NextPrices]_vars

\* a row holds an anchor to a detail page, with an identifier after /detail/
LinkedRow(row) ==
    \E j \in 1..Len(row.anchors) : IdentifierOf(row.anchors[j]) # <<>>

ShownName(row) ==
    IF row.strong # NoneValue THEN row.strong.val
    ELSE IF row.p # NoneValue THEN row.p.val
    ELSE <<>>

\* a row of at least four cells that shows a name
NamedRow(row) == row.tds > 3 /\ ShownName(row) # <<>>

InitTwn ==
    /\ phase = "twn"
    /\ type = "twn"
    /\ entry = "twn"
    /\ delay = DefaultDelay
    /\ workers = 0
    /\ limit = NoneValue
    /\ sitemap = [status |-> "ok", locs |-> <<>>]
    /\ prior = <<>>
    /\ fs = <<>>
    /\ urls = <<>>
    /\ sem = 0
    /\ clientOpen = FALSE
    /\ pc = <<>>
    /\ cur = <<>>
    /\ result = <<>>
    /\ calls = <<>>
    /\ dl = <<>>
    /\ gets = <<>>
    /\ items = <<>>
    /\ saved = NoFiles
    /\ exitStatus = -1
    /\ marketSaved = NoFiles
    /\ pricePage = NoPage
    /\ vendors = <<>>
    /\ pricesSaved = NoFiles
    /\ \E l \in TwnLimits : \E srv \in Servers :
          twn = [pc |-> "loop", limit |-> l, server |-> srv, page |-> 1, all |-> <<>>]

NextTwn == ScrapeVenuesPage

SpecTwn == InitTwn /\ [][NextTwn]_vars

\* the listings of pages 1..p of the server, in page order
RECURSIVE ServedUpTo(_, _)
ServedUpTo(server, p) ==
    IF p = 0 THEN <<>> ELSE ServedUpTo(server, p - 1) \o ListingsOf(server, p)

\* C17 (as claimed): scrape_venues with limit n >= 0 returns at most n
\* listings, the first ones in page order; with no limit it returns the
\* listings of every page up to and including the first page that has
\* fewer than 50.
C17_LimitBoundsListings ==
    twn.pc = "done" =>
        LET served == ServedUpTo(twn.server, twn.page)
        IN IF twn.limit = NoneValue
           THEN /\ twn.all = served
                /\ Len(ListingsOf(twn.server, twn.page)) < PageSize
                /\ \A q \in 1..(twn.page - 1) : Len(ListingsOf(twn.server, q)) = PageSize
           ELSE twn.limit.val >= 0 =>
                  /\ Len(twn.all) <= twn.limit.val
                  /\ twn.all = FirstN(served, twn.limit.val)

(***************************************************************************)
(* Fetches that run together and share a destination, under Spec.          *)
(***************************************************************************)
\* the download_pdf calls of the run that wrote the file at path
WritesTo(path) ==
    { <<i, n>> \in Tasks \X (1..MaxLinks) :
        /\ n <= Len(dl[i])
        /\ dl[i][n].wrote
        /\ PathOf(i, dl[i][n].link) = path }

\* the download_pdf calls that are waiting for the answer to their request
\* for the file at path
RequestsOpenFor(path) ==
    { <<i, n>> \in Tasks \X (1..MaxLinks) :
        /\ n <= Len(dl[i])
        /\ dl[i][n].open
        /\ PathOf(i, dl[i][n].link) = path }

\* the destinations of the download_pdf calls made so far
Destinations ==
    { PathOf(i, dl[i][n].link) : <<i, n>> \in
        { <<j, m>> \in Tasks \X (1..MaxLinks) : m <= Len(dl[j]) } }

\* C21 (as claimed): over all the scrape_venue_detail invocations of a run
\* no destination path is downloaded and written more than once, also when
\* two fetches in flight have the same destination: no file is written
\* twice, and no request for a file is made while another request for it is
\* open or after it was written.
C21_DestinationDownloadedOnce ==
    \A p \in Destinations :
        /\ Cardinality(WritesTo(p)) <= 1
        /\ Cardinality(RequestsOpenFor(p)) <= 1
        /\ WritesTo(p) # {} => RequestsOpenFor(p) = {}

(***************************************************************************)
(* Termination of a batch started through scrape_items, for a delay of     *)
(* every sign and size.  The event loop runs a coroutine that is ready,    *)
(* and every request is answered: each step that is possible is taken in   *)
(* the end.                                                                *)
(***************************************************************************)
\* --delay values: the ones of Delays and a negative one
LiveDelays == Delays \cup { [num |-> -1, den |-> 1] }

\* the <loc> entries of the sitemaps the batch is started on
LiveLocs(e) ==
    IF e = "marketplace"
    THEN { MarketUrl("7", "gown"), MarketUrl("8", "cake") }
    ELSE { VenueUrl("1", "hall"), VenueUrlNoSlug("3") }

InitLive ==
    /\ phase = "start"
    /\ entry \in {"venues", "marketplace"}
    /\ type = entry
    /\ delay \in LiveDelays
    /\ workers = 0
    /\ limit = NoneValue
    /\ sitemap \in SitemapResponses(LiveLocs(entry), MaxLocs)
    /\ prior = <<>>
    /\ fs = <<>>
    /\ urls = <<>>
    /\ sem = 0
    /\ clientOpen = FALSE
    /\ pc = <<>>
    /\ cur = <<>>
    /\ result = <<>>
    /\ calls = <<>>
    /\ dl = <<>>
    /\ gets = <<>>
    /\ items = <<>>
    /\ saved = NoFiles
    /\ exitStatus = -1
    /\ marketSaved = NoFiles
    /\ pricePage = NoPage
    /\ vendors = <<>>
    /\ pricesSaved = NoFiles
    /\ twn = TwnIdle

NextLive ==
    \/ ScrapeItemsCall
    \/ \E i \in Tasks : TaskStart(i)
    \/ \E i \in Tasks : \E r \in Responses : PageResponse(i, r)
    \/ \E i \in Tasks : \E r \in Responses : \E a \in SeqsUpTo(Hrefs, MaxLinks) :
            ListingResponse(i, r, a)
    \/ \E i \in Tasks : \E r \in Responses : PdfResponse(i, r)
    \/ GatherReturn
    \/ MainFinish

\* main and the event loop go on when they can, and every request that is
\* waited for is answered
Fairness ==
    /\ WF_vars(ScrapeItemsCall)
    /\ WF_vars(\E i \in Tasks : TaskStart(i))
    /\ WF_vars(\E i \in Tasks : \E r \in Responses : PageResponse(i, r))
    /\ WF_vars(\E i \in Tasks : \E r \in Responses : \E a \in SeqsUpTo(Hrefs, MaxLinks) :
                  ListingResponse(i, r, a))
    /\ WF_vars(\E i \in Tasks : \E r \in Responses : PdfResponse(i, r))
    /\ WF_vars(GatherReturn)
    /\ WF_vars(MainFinish)

SpecLive == InitLive /\ [][NextLive]_vars /\ Fairness

\* C22: a batch started through scrape_items terminates when every fetch
\* does: for a delay of zero, below zero, below 1 and above 1 the worker
\* count is at least 1; the permits not held by a running item are in the
\* semaphore, so that a permit comes back when its item finishes, by return
\* or by exception; and the call returns in the end, after every item has
\* had a permit and has finished.
C22_BatchTerminates ==
    /\ [](phase # "start" =>
            /\ workers >= 1
            /\ sem + Cardinality(InFlight) = workers)
    /\ <>(/\ phase = "exit"
          /\ \A i \in Tasks : calls[i] = 1 /\ pc[i] = "done"
          /\ sem = workers)

\* C22 witness: with a delay above 1 there was one permit for two items;
\* the first item raised, the second got the permit after it, and the call
\* has returned with the permit back in the semaphore.
C22_Witness ==
    /\ phase = "returned"
    /\ delay.num > delay.den
    /\ workers = 1
    /\ Len(urls) = 2
    /\ result[1].kind = "exc"
    /\ pc[2] = "done"
    /\ calls[2] = 1
    /\ sem = workers

====
